---- MODULE Spec2Model ----
(***************************************************************************)
(* lscerts: lists the leaf certificate of each HTTPS URL read from         *)
(* standard input, sorted by expiry date.  Model of src/lscerts.go         *)
(* (the current program, lines 129-290).                                   *)
(*                                                                         *)
(* Strings are sequences of one-character strings.  Time is counted in     *)
(* ticks of 1/TicksPerHour hour since 2023-01-01T00:00:00Z.                *)
(***************************************************************************)
EXTENDS Integers, Sequences, FiniteSets, TLC

\* ------------------------------------------------------------------ bounds

\* resolution of the modelled clock
TicksPerHour == 2
\* longest input the scanner is given
MaxLines == 2
\* the wall clock advances at most this far during a run
MaxClock == 1

\* ----------------------------------------------------------------- strings

\* The bytes that occur in the model, in ascending byte order.
Alphabet ==
    << " ", "#", "-", ".", "/",
       "0", "1", "2", "3", "4", "5", "6", "7", "8", "9",
       ":", "<", "H", "P", "R", "S", "T",
       "a", "b", "c", "d", "e", "f", "h", "i", "p", "r", "s", "t", "w", "x", "y" >>

Ord(c) == CHOOSE i \in 1..Len(Alphabet) : Alphabet[i] = c

DigitChars == << "0", "1", "2", "3", "4", "5", "6", "7", "8", "9" >>

IsDigit(c) == \E i \in 1..10 : DigitChars[i] = c

IsLetter(c) ==
    c \in {"H", "P", "R", "S", "T",
           "a", "b", "c", "d", "e", "f", "h", "i", "p", "r", "s", "t", "w", "x", "y"}

\* strings.ToLower on the letters of the alphabet
LowerChar(c) ==
    CASE c = "H" -> "h" [] c = "P" -> "p" [] c = "S" -> "s" [] c = "T" -> "t"
      [] c = "R" -> "r" [] OTHER -> c

ToLower(s) == [i \in 1..Len(s) |-> LowerChar(s[i])]

\* Go's < on strings: bytewise lexicographic, a proper prefix is smaller
RECURSIVE StrLess(_, _)
StrLess(a, b) ==
    IF b = << >> THEN FALSE
    ELSE IF a = << >> THEN TRUE
    ELSE IF Head(a) = Head(b) THEN StrLess(Tail(a), Tail(b))
    ELSE Ord(Head(a)) < Ord(Head(b))

StrLeq(a, b) == a = b \/ StrLess(a, b)

\* fmt's %d and big.Int.String for n >= 0
RECURSIVE Itoa(_)
Itoa(n) ==
    IF n < 10 THEN << DigitChars[n + 1] >>
    ELSE Itoa(n \div 10) \o << DigitChars[(n % 10) + 1] >>

\* zero-padded decimal of width w, as time.Format pads 2006, 01 and 02
RECURSIVE Pad(_, _)
Pad(s, w) == IF Len(s) >= w THEN s ELSE Pad(<< "0" >> \o s, w)

\* strings.Join(fields, sep)
RECURSIVE Join(_, _)
Join(fields, sep) ==
    IF fields = << >> THEN << >>
    ELSE IF Len(fields) = 1 THEN fields[1]
    ELSE fields[1] \o sep \o Join(Tail(fields), sep)

\* strings.IndexByte: position of the first c in s, 0 when absent
IndexOf(s, c) ==
    IF \E i \in 1..Len(s) : s[i] = c
    THEN CHOOSE i \in 1..Len(s) : s[i] = c /\ \A j \in 1..(i - 1) : s[j] # c
    ELSE 0

\* strings.LastIndex: position of the last c in s, 0 when absent
LastIndexOf(s, c) ==
    IF \E i \in 1..Len(s) : s[i] = c
    THEN CHOOSE i \in 1..Len(s) : s[i] = c /\ \A j \in (i + 1)..Len(s) : s[j] # c
    ELSE 0

HasPrefix(s, p) == Len(s) >= Len(p) /\ SubSeq(s, 1, Len(p)) = p

From(s, i) == SubSeq(s, i, Len(s))

\* ------------------------------------------------------------- net/url

\* url.getScheme from position i: letters, then digits + - . after the first
\* byte, up to the first ":"; any other byte means the string has no scheme
RECURSIVE getScheme(_, _)
getScheme(s, i) ==
    IF i > Len(s) THEN [scheme |-> << >>, rest |-> s, ok |-> TRUE]
    ELSE IF IsLetter(s[i]) THEN getScheme(s, i + 1)
    ELSE IF IsDigit(s[i]) \/ s[i] \in {"-", "."}
         THEN IF i = 1 THEN [scheme |-> << >>, rest |-> s, ok |-> TRUE]
              ELSE getScheme(s, i + 1)
    ELSE IF s[i] = ":"
         THEN IF i = 1 THEN [scheme |-> << >>, rest |-> << >>, ok |-> FALSE]
              ELSE [scheme |-> SubSeq(s, 1, i - 1), rest |-> From(s, i + 1), ok |-> TRUE]
    ELSE [scheme |-> << >>, rest |-> s, ok |-> TRUE]

\* url.validOptionalPort: "" or ":" followed by digits only
validOptionalPort(port) ==
    IF port = << >> THEN TRUE
    ELSE /\ port[1] = ":"
         /\ \A i \in 2..Len(port) : IsDigit(port[i])

\* url.parseHost without brackets: the text after the last colon must be a
\* port, and a byte that needs escaping in a host (here the space) is refused
parseHostOk(host) ==
    /\ LET i == LastIndexOf(host, ":")
       IN  i # 0 => validOptionalPort(From(host, i))
    /\ \A i \in 1..Len(host) : host[i] # " "

\* url.Parse: the fragment is cut off at the first "#", the scheme is
\* lowered, and an authority is read only after "//".
\* Result: [err, Scheme, Host].
Parse(rawURL) ==
    LET hash == IndexOf(rawURL, "#")
        u    == IF hash = 0 THEN rawURL ELSE SubSeq(rawURL, 1, hash - 1)
        g    == getScheme(u, 1)
        bad  == [err |-> TRUE, Scheme |-> << >>, Host |-> << >>]
        sch  == ToLower(g.scheme)
        rest == g.rest
    IN  IF ~g.ok THEN bad
        ELSE IF ~HasPrefix(rest, << "/" >>)
        THEN IF sch # << >>
             THEN [err |-> FALSE, Scheme |-> sch, Host |-> << >>]   \* opaque
             ELSE LET slash == IndexOf(rest, "/")
                      seg   == IF slash = 0 THEN rest ELSE SubSeq(rest, 1, slash - 1)
                  IN  IF IndexOf(seg, ":") # 0 THEN bad
                      ELSE [err |-> FALSE, Scheme |-> sch, Host |-> << >>]
        ELSE IF (sch # << >> \/ ~HasPrefix(rest, << "/", "/", "/" >>))
                /\ HasPrefix(rest, << "/", "/" >>)
        THEN LET after     == From(rest, 3)
                 slash     == IndexOf(after, "/")
                 authority == IF slash = 0 THEN after
                              ELSE SubSeq(after, 1, slash - 1)
             IN  IF parseHostOk(authority)
                 THEN [err |-> FALSE, Scheme |-> sch, Host |-> authority]
                 ELSE bad
        ELSE [err |-> FALSE, Scheme |-> sch, Host |-> << >>]

\* URL.Port: the text after the first colon of Host
Port(host) ==
    LET colon == IndexOf(host, ":")
    IN  IF colon = 0 THEN << >> ELSE From(host, colon + 1)

\* URL.Hostname: Host without the port
Hostname(host) ==
    LET colon == IndexOf(host, ":")
    IN  IF colon = 0 THEN host ELSE SubSeq(host, 1, colon - 1)

\* --------------------------------------------------------- getHostPort

httpsPort == 443

https == << "h", "t", "t", "p", "s" >>

\* a resolver that returns the host name without the port of the URL
getHostPortHostname(str) ==
    LET url == Parse(str)
    IN  IF url.err THEN [hostPort |-> << >>, err |-> "parse"]
        ELSE IF url.Scheme # https THEN [hostPort |-> << >>, err |-> "scheme"]
        ELSE [hostPort |-> IF Port(url.Host) = << >>
                           THEN Hostname(url.Host) \o << ":" >> \o Itoa(httpsPort)
                           ELSE Hostname(url.Host),
              err |-> "nil"]

\* a resolver that lets every scheme beginning with http through
getHostPortAnyHttp(str) ==
    LET url == Parse(str)
    IN  IF url.err THEN [hostPort |-> << >>, err |-> "parse"]
        ELSE IF ~HasPrefix(url.Scheme, << "h", "t", "t", "p" >>)
        THEN [hostPort |-> << >>, err |-> "scheme"]
        ELSE [hostPort |-> IF Port(url.Host) = << >>
                           THEN url.Host \o << ":" >> \o Itoa(httpsPort)
                           ELSE url.Host,
              err |-> "nil"]

\* getHostPort(str): [hostPort, err], err one of "nil", "parse", "scheme"
getHostPort(str) ==
    LET url == Parse(str)
    IN  IF url.err THEN [hostPort |-> << >>, err |-> "parse"]
        ELSE IF url.Scheme # https THEN [hostPort |-> << >>, err |-> "scheme"]
        ELSE [hostPort |-> IF Port(url.Host) = << >>
                           THEN url.Host \o << ":" >> \o Itoa(httpsPort)
                           ELSE url.Host,
              err |-> "nil"]

\* --------------------------------------------------------- getToExpiry

hoursPerDay == 24
hoursPerWeek == hoursPerDay * 7
hoursPerYear == hoursPerWeek * 52

\* A time.Duration is an int64 of nanoseconds: at most 2562047 full hours
\* (and a fraction) in either direction.
MaxDurationHours == 2562047
MaxDurationTicks == MaxDurationHours * TicksPerHour + (TicksPerHour - 1)

\* time.Until(expiry) at wall-clock time now: Time.Sub saturates at the
\* largest and smallest Duration
Until(expiry, now) ==
    LET d == expiry - now
    IN  IF d > MaxDurationTicks THEN MaxDurationTicks
        ELSE IF d < -MaxDurationTicks THEN -MaxDurationTicks
        ELSE d

\* int64(d.Hours()): the conversion truncates toward zero
Hours(d) == IF d >= 0 THEN d \div TicksPerHour ELSE -((-d) \div TicksPerHour)

getToExpiry(expiry, now) ==
    LET hours == Hours(Until(expiry, now))
    IN  IF hours < 0 THEN << "e", "x", "p", "i", "r", "e", "d" >>
        ELSE IF hours < 1 THEN << "<", "1", "h" >>
        ELSE IF hours <= hoursPerDay THEN Itoa(hours) \o << "h" >>
        ELSE IF hours <= hoursPerWeek THEN Itoa(hours \div hoursPerDay) \o << "d" >>
        ELSE IF hours <= hoursPerYear THEN Itoa(hours \div hoursPerWeek) \o << "w" >>
        ELSE Itoa(hours \div hoursPerYear) \o << "y" >>

\* ------------------------------------------------ Format(time.DateOnly)

IsLeap(y) == (y % 4 = 0 /\ y % 100 # 0) \/ y % 400 = 0

DaysInYear(y) == IF IsLeap(y) THEN 366 ELSE 365

DaysInMonth(y, m) ==
    IF m = 2 THEN (IF IsLeap(y) THEN 29 ELSE 28)
    ELSE IF m \in {4, 6, 9, 11} THEN 30
    ELSE 31

\* the civil date of day number d counted from the first day of year y
RECURSIVE YearOfDay(_, _)
YearOfDay(d, y) ==
    IF d < DaysInYear(y) THEN [year |-> y, yday |-> d]
    ELSE YearOfDay(d - DaysInYear(y), y + 1)

RECURSIVE MonthOfDay(_, _, _)
MonthOfDay(d, y, m) ==
    IF d < DaysInMonth(y, m) THEN [month |-> m, day |-> d + 1]
    ELSE MonthOfDay(d - DaysInMonth(y, m), y, m + 1)

\* the calendar day (UTC) a time falls on, counted from 2023-01-01
DayOf(t) == t \div (hoursPerDay * TicksPerHour)

Civil(t) ==
    LET yd == YearOfDay(DayOf(t), 2023)
        md == MonthOfDay(yd.yday, yd.year, 1)
    IN  [year |-> yd.year, month |-> md.month, day |-> md.day]

\* t.Format(time.DateOnly): "2006-01-02"
FormatDateOnly(t) ==
    LET c == Civil(t)
    IN  Pad(Itoa(c.year), 4) \o << "-" >> \o Pad(Itoa(c.month), 2)
          \o << "-" >> \o Pad(Itoa(c.day), 2)

\* -------------------------------------------------------- sort.Strings

\* s with x put before the first element greater than x
RECURSIVE Insert(_, _)
Insert(x, s) ==
    IF s = << >> THEN << x >>
    ELSE IF StrLess(x, Head(s)) THEN << x >> \o s
    ELSE << Head(s) >> \o Insert(x, Tail(s))

RECURSIVE InsertionSort(_)
InsertionSort(s) ==
    IF s = << >> THEN << >> ELSE Insert(Head(s), InsertionSort(Tail(s)))

\* the list left as it was accumulated
SortStringsNone(s) == s

\* a sort that compares the expiry dates only
RECURSIVE InsertByDate(_, _)
InsertByDate(x, s) ==
    IF s = << >> THEN << x >>
    ELSE IF StrLess(SubSeq(x, 1, 10), SubSeq(Head(s), 1, 10)) THEN << x >> \o s
    ELSE << Head(s) >> \o InsertByDate(x, Tail(s))

RECURSIVE SortStringsByDate(_)
SortStringsByDate(s) ==
    IF s = << >> THEN << >> ELSE InsertByDate(Head(s), SortStringsByDate(Tail(s)))

\* sort.Strings(details): increasing order of Go's string <
SortStrings(s) == InsertionSort(s)

\* ------------------------------------------------------------- state

VARIABLES
    lines,      \* main: the lines the scanner delivers, in order
    noHeader,   \* main: the -n flag
    pos,        \* main: number of lines scanned so far
    pc,         \* position of the running function
    hostPort,   \* main: result of getHostPort for the current line
    conns,      \* the open TLS connections, each with the peer's leaf certificate
    cert,       \* main: result of fetchCert for the current line
    details,    \* main: the accumulated records
    out,        \* everything written so far, stderr and stdout, in write order
    clock,      \* wall-clock time, time.Now()
    dialed,     \* history: the dial attempts made, [line, hostPort]
    history,    \* history: the records in the order appended,
                \*          [line, cert, fields, rec]
    expiry,     \* getToExpiry alone: its argument
    toExpiry,   \* getToExpiry alone: its result
    urlParts,   \* getHostPort alone: the pieces its argument is made of
    resolved    \* getHostPort alone: its result

vars == << lines, noHeader, pos, pc, hostPort, conns, cert, details, out, clock,
           dialed, history, expiry, toExpiry, urlParts, resolved >>

mainVars == << lines, noHeader, pos, hostPort, conns, cert, details, out,
               dialed, history >>

\* ------------------------------------------------------------- inputs

\* the lines an input is made of
LineSet ==
    { << >>,
      << "#", "c" >>,
      << "h", "t", "t", "p", ":", "/", "/", "a" >>,
      << ":", "x" >>,
      << "h", "t", "t", "p", "s", ":", "/", "/", "a" >>,
      << "h", "t", "t", "p", "s", ":", "/", "/", "a", "/", "x" >>,
      << "h", "t", "t", "p", "s", ":", "/", "/", "b", ":", "8", "4", "4", "3" >> }

Inputs == UNION { [1..n -> LineSet] : n \in 0..MaxLines }

\* the leaf certificates a server may present: expiring on 2023-01-10,
\* on 2023-01-11, and again on 2023-01-10 with another serial number
Certs ==
    { [notAfter |-> (9 * hoursPerDay + 3) * TicksPerHour, serial |-> 12,
       issuer |-> << "R", "3" >>],
      [notAfter |-> (10 * hoursPerDay) * TicksPerHour, serial |-> 7,
       issuer |-> << "R", "3" >>],
      [notAfter |-> (9 * hoursPerDay + 5) * TicksPerHour, serial |-> 7,
       issuer |-> << "R", "3" >>] }

\* ------------------------------------------------------------- main

MainInit ==
    /\ pos = 0
    /\ hostPort = << >>
    /\ conns = << >>
    /\ cert = << >>
    /\ details = << >>
    /\ out = << >>
    /\ dialed = << >>
    /\ history = << >>

AloneIdle ==
    /\ expiry = 0
    /\ toExpiry = << >>
    /\ urlParts = << >>
    /\ resolved = << >>

Init ==
    /\ lines \in Inputs
    /\ noHeader \in BOOLEAN
    /\ pc = "scan"
    /\ clock = 0
    /\ MainInit
    /\ AloneIdle

Ignored(line) == IF line = << >> THEN TRUE ELSE line[1] = "#"

Stderr(kind, n, text) == [fd |-> "stderr", kind |-> kind, line |-> n, text |-> text]
Stdout(kind, text) == [fd |-> "stdout", kind |-> kind, line |-> 0, text |-> text]

\* scanner.Scan delivers a blank or comment line: continue
ScanIgnore ==
    /\ pc = "scan"
    /\ pos < Len(lines)
    /\ Ignored(lines[pos + 1])
    /\ pos' = pos + 1
    /\ UNCHANGED << lines, noHeader, pc, hostPort, conns, cert, details, out, clock,
                    dialed, history, expiry, toExpiry, urlParts, resolved >>

\* a loop that goes on to fetch although getHostPort failed
ScanBadURLThenFetch ==
    /\ pc = "scan"
    /\ pos < Len(lines)
    /\ ~Ignored(lines[pos + 1])
    /\ getHostPort(lines[pos + 1]).err # "nil"
    /\ pos' = pos + 1
    /\ hostPort' = getHostPort(lines[pos + 1]).hostPort
    /\ pc' = "dial"
    /\ UNCHANGED << lines, noHeader, conns, cert, details, out, clock,
                    dialed, history, expiry, toExpiry, urlParts, resolved >>

\* getHostPort fails for the line: the error goes to stderr, continue
ScanBadURL ==
    /\ pc = "scan"
    /\ pos < Len(lines)
    /\ ~Ignored(lines[pos + 1])
    /\ getHostPort(lines[pos + 1]).err # "nil"
    /\ pos' = pos + 1
    /\ out' = Append(out, Stderr(getHostPort(lines[pos + 1]).err, pos + 1,
                                 lines[pos + 1]))
    /\ UNCHANGED << lines, noHeader, pc, hostPort, conns, cert, details, clock,
                    dialed, history, expiry, toExpiry, urlParts, resolved >>

\* getHostPort succeeds for the line: main calls fetchCert(hostPort)
ScanResolved ==
    /\ pc = "scan"
    /\ pos < Len(lines)
    /\ ~Ignored(lines[pos + 1])
    /\ getHostPort(lines[pos + 1]).err = "nil"
    /\ pos' = pos + 1
    /\ hostPort' = getHostPort(lines[pos + 1]).hostPort
    /\ pc' = "dial"
    /\ UNCHANGED << lines, noHeader, conns, cert, details, out, clock,
                    dialed, history, expiry, toExpiry, urlParts, resolved >>

\* a fetch that fails without a word
DialFailSilent ==
    /\ pc = "dial"
    /\ dialed' = Append(dialed, [line |-> pos, hostPort |-> hostPort])
    /\ pc' = "scan"
    /\ UNCHANGED << lines, noHeader, pos, hostPort, conns, cert, details, out, clock,
                    history, expiry, toExpiry, urlParts, resolved >>

\* tls.DialWithDialer fails (no connection within the timeout, or the
\* handshake or the validation fails): fetchCert returns the error, main
\* writes it to stderr and continues
DialFail ==
    /\ pc = "dial"
    /\ dialed' = Append(dialed, [line |-> pos, hostPort |-> hostPort])
    /\ out' = Append(out, Stderr("fetch", pos, hostPort))
    /\ pc' = "scan"
    /\ UNCHANGED << lines, noHeader, pos, hostPort, conns, cert, details, clock,
                    history, expiry, toExpiry, urlParts, resolved >>

\* tls.DialWithDialer succeeds: the peer presented a chain that is valid
\* now, and the connection is open
DialOK ==
    /\ pc = "dial"
    /\ \E c \in Certs :
         /\ c.notAfter >= clock
         /\ conns' = Append(conns, c)
    /\ dialed' = Append(dialed, [line |-> pos, hostPort |-> hostPort])
    /\ pc' = "connected"
    /\ UNCHANGED << lines, noHeader, pos, hostPort, cert, details, out, clock,
                    history, expiry, toExpiry, urlParts, resolved >>

\* a fetchCert that returns the certificate and leaves the connection open
FetchReturnNoClose ==
    /\ pc = "connected"
    /\ cert' = << conns[Len(conns)] >>
    /\ pc' = "record"
    /\ UNCHANGED << lines, noHeader, pos, hostPort, conns, details, out, clock,
                    dialed, history, expiry, toExpiry, urlParts, resolved >>

\* fetchCert takes PeerCertificates[0] and returns; the deferred
\* conn.Close() runs
FetchReturn ==
    /\ pc = "connected"
    /\ cert' = << conns[Len(conns)] >>
    /\ conns' = SubSeq(conns, 1, Len(conns) - 1)
    /\ pc' = "record"
    /\ UNCHANGED << lines, noHeader, pos, hostPort, details, out, clock,
                    dialed, history, expiry, toExpiry, urlParts, resolved >>

\* the fields main lists for the line url and the certificate c at time now
Fields(url, c, now) ==
    << FormatDateOnly(c.notAfter), getToExpiry(c.notAfter, now), url,
       Itoa(c.serial), c.issuer >>

\* record := strings.Join(fields, " ")
Record(url, c, now) == Join(Fields(url, c, now), << " " >>)

\* a loop that prints each record as soon as it has it
AppendRecordPrintNow ==
    /\ pc = "record"
    /\ \E now \in clock..MaxClock :
         /\ clock' = now
         /\ LET rec == Record(lines[pos], cert[1], now)
            IN  /\ out' = Append(out, Stdout("row", rec))
                /\ history' = Append(history,
                                     [line |-> pos, cert |-> cert[1],
                                      fields |-> Fields(lines[pos], cert[1], now),
                                      rec |-> rec])
    /\ pc' = "scan"
    /\ UNCHANGED << lines, noHeader, pos, hostPort, conns, cert, details,
                    dialed, expiry, toExpiry, urlParts, resolved >>

\* main formats the certificate and appends the record to details
AppendRecord ==
    /\ pc = "record"
    /\ \E now \in clock..MaxClock :
         /\ clock' = now
         /\ LET rec == Record(lines[pos], cert[1], now)
            IN  /\ details' = Append(details, rec)
                /\ history' = Append(history,
                                     [line |-> pos, cert |-> cert[1],
                                      fields |-> Fields(lines[pos], cert[1], now),
                                      rec |-> rec])
    /\ pc' = "scan"
    /\ UNCHANGED << lines, noHeader, pos, hostPort, conns, cert, out,
                    dialed, expiry, toExpiry, urlParts, resolved >>

\* scanner.Scan returns false at the end of the input
ScanEOF ==
    /\ pc = "scan"
    /\ pos = Len(lines)
    /\ pc' = "finalize"
    /\ UNCHANGED << lines, noHeader, pos, hostPort, conns, cert, details, out, clock,
                    dialed, history, expiry, toExpiry, urlParts, resolved >>

\* scanner.Scan returns false on a read error: the lines not yet delivered
\* are never seen, scanner.Err() is written to stderr
ScanFail ==
    /\ pc = "scan"
    /\ out' = Append(out, Stderr("scan", 0, << >>))
    /\ pc' = "finalize"
    /\ UNCHANGED << lines, noHeader, pos, hostPort, conns, cert, details, clock,
                    dialed, history, expiry, toExpiry, urlParts, resolved >>

Rows(recs) == [i \in 1..Len(recs) |-> Stdout("row", recs[i])]

\* the header unless -n, sort.Strings(details), one line per record
Finalize ==
    /\ pc = "finalize"
    /\ details' = SortStrings(details)
    /\ out' = out \o (IF noHeader THEN << >> ELSE << Stdout("header", << >>) >>)
                  \o Rows(SortStrings(details))
    /\ pc' = "done"
    /\ UNCHANGED << lines, noHeader, pos, hostPort, conns, cert, clock,
                    dialed, history, expiry, toExpiry, urlParts, resolved >>

Next ==
    \/ ScanIgnore
    \/ ScanBadURL
    \/ ScanResolved
    \/ DialFail
    \/ DialOK
    \/ FetchReturn
    \/ AppendRecord
    \/ ScanEOF
    \/ ScanFail
    \/ Finalize

Spec == Init /\ [][Next]_vars

\* ------------------------------------------------- getToExpiry alone

\* whole hours between now and expiry that the inputs are taken around:
\* the bucket boundaries, the largest Duration, and 9999-12-31
HourPoints ==
    { 0, 1, 2, 23, 24, 25, 47, 48, 167, 168, 169, 335, 336,
      8735, 8736, 8737, 17471, 17472,
      MaxDurationHours - 1, MaxDurationHours, MaxDurationHours + 1,
      69900000 }

Offsets ==
    { h * TicksPerHour + f : h \in HourPoints, f \in 0..(TicksPerHour - 1) }

PastOffsets ==
    { -(h * TicksPerHour + f) :
        h \in {0, 1, 2, 24, MaxDurationHours + 1}, f \in 0..(TicksPerHour - 1) }

InitToExpiry ==
    /\ clock \in 0..MaxClock
    /\ expiry \in { clock + d : d \in Offsets \cup PastOffsets }
    /\ toExpiry = << >>
    /\ pc = "classify"
    /\ lines = << >>
    /\ noHeader = FALSE
    /\ MainInit
    /\ urlParts = << >>
    /\ resolved = << >>

\* toExpiry := getToExpiry(expiry), called at time clock
Classify ==
    /\ pc = "classify"
    /\ toExpiry' = getToExpiry(expiry, clock)
    /\ pc' = "classified"
    /\ UNCHANGED << mainVars, clock, expiry, urlParts, resolved >>

NextToExpiry == Classify

SpecToExpiry == InitToExpiry /\ [][NextToExpiry]_vars

\* ------------------------------------------------- getHostPort alone

Prefixes ==
    { << "h", "t", "t", "p", "s", ":", "/", "/" >>,
      << "H", "T", "T", "P", "S", ":", "/", "/" >>,
      << "h", "t", "t", "p", ":", "/", "/" >>,
      << "f", "t", "p", ":", "/", "/" >>,
      << "h", "t", "t", "p", "s", ":" >>,
      << "/", "/" >>,
      << ":" >>,
      << >> }

Hosts == { << "a" >>, << "b", ".", "c" >>, << "a", " ", "b" >>, << >> }

Ports ==
    { << >>, << ":", "8", "4", "4", "3" >>, << ":", "1" >>, << ":" >>, << ":", "x" >> }

Paths == { << >>, << "/" >>, << "/", "x" >>, << "#", "f" >> }

URLString(parts) == parts.prefix \o parts.host \o parts.port \o parts.path

InitHostPort ==
    /\ urlParts \in [prefix : Prefixes, host : Hosts, port : Ports, path : Paths]
    /\ resolved = << >>
    /\ pc = "resolve"
    /\ clock = 0
    /\ expiry = 0
    /\ toExpiry = << >>
    /\ lines = << >>
    /\ noHeader = FALSE
    /\ MainInit

\* hostPort, err := getHostPort(str)
Resolve ==
    /\ pc = "resolve"
    /\ resolved' = << getHostPort(URLString(urlParts)) >>
    /\ pc' = "resolved"
    /\ UNCHANGED << mainVars, clock, expiry, toExpiry, urlParts >>

NextHostPort == Resolve

SpecHostPort == InitHostPort /\ [][NextHostPort]_vars

\* ------------------------------------------------------------- claims

Range(f) == { f[i] : i \in DOMAIN f }

\* the success rows written to stdout, in write order
OutRows ==
    LET rows == SelectSeq(out, LAMBDA e : e.fd = "stdout" /\ e.kind = "row")
    IN  [i \in 1..Len(rows) |-> rows[i].text]

\* the per-line failure messages written to stderr, in write order
OutFailures == SelectSeq(out, LAMBDA e : e.fd = "stderr" /\ e.line > 0)

\* the history entries whose record is the row r
EntriesOf(r) == { h \in Range(history) : h.rec = r }

\* no row of a later expiry date stands before a row of an earlier one
DateOrdered(rows) ==
    \A i, j \in 1..Len(rows) :
        i < j =>
            \A hi \in EntriesOf(rows[i]), hj \in EntriesOf(rows[j]) :
                DayOf(hi.cert.notAfter) <= DayOf(hj.cert.notAfter)

\* C1 as stated: once the input is consumed the rows are in ascending order
\* of the key made by concatenating expiry date, bucket, URL, serial number
\* and issuer, and rows of an earlier expiry date come first.
C1_Original ==
    pc = "done" =>
        /\ \A i \in 1..(Len(OutRows) - 1) :
               \A hi \in EntriesOf(OutRows[i]), hj \in EntriesOf(OutRows[i + 1]) :
                   StrLeq(Join(hi.fields, << >>), Join(hj.fields, << >>))
        /\ DateOrdered(OutRows)

\* C1 amended: once the input is consumed the rows are in ascending order of
\* the key made by joining expiry date, bucket, URL, serial number and
\* issuer with single spaces (the row itself), and rows of an earlier expiry
\* date come first, whatever the order of the input lines.
C1_SortedByJoinedKey ==
    pc = "done" =>
        /\ \A i \in 1..(Len(OutRows) - 1) :
               \A hi \in EntriesOf(OutRows[i]), hj \in EntriesOf(OutRows[i + 1]) :
                   StrLeq(Join(hi.fields, << " " >>), Join(hj.fields, << " " >>))
        /\ Len(OutRows) = Len(history)
        /\ DateOrdered(OutRows)

\* two certificates of different expiry dates were recorded later date
\* first, and the report lists the earlier one first
C1_Witness ==
    /\ pc = "done"
    /\ Len(history) = 2
    /\ DayOf(history[1].cert.notAfter) > DayOf(history[2].cert.notAfter)
    /\ OutRows = << history[2].rec, history[1].rec >>

\* the results line i has produced: failure messages plus success records
ResultsOf(i) ==
    Cardinality({ k \in 1..Len(out) : out[k].fd = "stderr" /\ out[k].line = i })
      + Cardinality({ k \in 1..Len(history) : history[k].line = i })

\* the lines whose processing is over
Completed == IF pc \in {"dial", "connected", "record"} THEN pos - 1 ELSE pos

NotIgnored(n) == { i \in 1..n : ~Ignored(lines[i]) }

\* C2: every line that is neither blank nor a comment produces exactly one
\* result, a success record or a failure message, and an ignored line
\* none; a failure stops nothing, so at the end of the input successes plus
\* failures equal the number of lines that are not ignored.
C2_OneResultPerLine ==
    /\ \A i \in 1..Completed :
           ResultsOf(i) = IF Ignored(lines[i]) THEN 0 ELSE 1
    /\ \A i \in (Completed + 1)..Len(lines) : ResultsOf(i) = 0
    /\ pc = "done" =>
           /\ Len(OutRows) + Len(OutFailures) = Cardinality(NotIgnored(pos))
           /\ Len(OutRows) = Len(history)
           /\ (\A k \in 1..Len(out) : out[k].kind # "scan") => pos = Len(lines)

\* a line whose fetch failed is followed by a line that succeeded
C2_Witness ==
    /\ pc = "done"
    /\ Len(lines) = 2
    /\ \E k \in 1..Len(out) : out[k].kind = "fetch" /\ out[k].line = 1
    /\ Len(OutRows) = 1
    /\ history[1].line = 2

\* C7: no connection is attempted for a line on which getHostPort fails,
\* and the failure is on stderr before the next line is read.
C7_NoDialOnBadURL ==
    /\ \A k \in 1..Len(dialed) :
           /\ getHostPort(lines[dialed[k].line]).err = "nil"
           /\ dialed[k].hostPort # << >>
    /\ \A i \in NotIgnored(pos) :
           getHostPort(lines[i]).err # "nil" =>
               /\ \E k \in 1..Len(out) :
                      /\ out[k].fd = "stderr"
                      /\ out[k].line = i
                      /\ out[k].kind = getHostPort(lines[i]).err
               /\ \A k \in 1..Len(dialed) : dialed[k].line # i

\* an http line was refused and the line after it was dialled
C7_Witness ==
    /\ pos = 2
    /\ lines[1] = << "h", "t", "t", "p", ":", "/", "/", "a" >>
    /\ \E k \in 1..Len(out) : out[k].kind = "scheme" /\ out[k].line = 1
    /\ Len(dialed) = 1
    /\ dialed[1].line = 2

\* C8: the connection fetchCert opens is closed when fetchCert returns, so
\* no connection is open between two lines and never more than one.
C8_ConnectionClosed ==
    /\ Len(conns) <= 1
    /\ pc # "connected" => conns = << >>

\* fetchCert has returned the certificate of a second connection
C8_Witness ==
    /\ pc = "record"
    /\ Len(dialed) = 2
    /\ Len(history) = 1
    /\ conns = << >>

\* C9: failure messages are written as the failing lines are processed, in
\* input order; nothing goes to stdout before the scan is over, so every
\* failure message precedes the header and the first row.
C9_FailuresFirst ==
    /\ pc # "done" => \A k \in 1..Len(out) : out[k].fd = "stderr"
    /\ \A j, k \in 1..Len(out) :
           (j < k /\ out[j].fd = "stdout") => out[k].fd = "stdout"
    /\ \A j, k \in 1..Len(OutFailures) :
           j < k => OutFailures[j].line < OutFailures[k].line
    /\ \A i \in NotIgnored(Completed) :
           (\A k \in 1..Len(history) : history[k].line # i) =>
               \E k \in 1..Len(out) : out[k].fd = "stderr" /\ out[k].line = i
    /\ pc # "done" => Len(details) = Len(history)

\* a success is followed by a failure in the input, and the failure is
\* written before the header and the row
C9_Witness ==
    /\ pc = "done"
    /\ Len(history) = 1
    /\ history[1].line = 1
    /\ Len(out) = 3
    /\ out[1].fd = "stderr" /\ out[1].line = 2
    /\ out[2].kind = "header"
    /\ out[3].kind = "row"

\* the rearrangements of a sequence
Rearrangements(s) ==
    { [i \in 1..Len(s) |-> s[f[i]]] :
        f \in { g \in [1..Len(s) -> 1..Len(s)] :
                  \A a, b \in 1..Len(s) : g[a] = g[b] => a = b } }

HistoryRecs == [i \in 1..Len(history) |-> history[i].rec]

\* C10: the rows written depend only on which records were accumulated,
\* not on the order they were recorded in, and sorting the sorted list
\* again changes nothing.
C10_OrderIndependent ==
    pc = "done" =>
        /\ \A p \in Rearrangements(HistoryRecs) : SortStrings(p) = OutRows
        /\ SortStrings(OutRows) = OutRows
        /\ details = OutRows

\* two records were accumulated in an order that is not the one written
C10_Witness ==
    /\ pc = "done"
    /\ Len(history) = 2
    /\ OutRows # HistoryRecs
    /\ DayOf(history[1].cert.notAfter) = DayOf(history[2].cert.notAfter)

\* ------------------------------------------------- claims, getToExpiry

\* the boundary table of the classifier
Table(h) ==
    IF h < 1 THEN << "<", "1", "h" >>
    ELSE IF h <= 24 THEN Itoa(h) \o << "h" >>
    ELSE IF h <= 168 THEN Itoa(h \div 24) \o << "d" >>
    ELSE IF h <= 8736 THEN Itoa(h \div 168) \o << "w" >>
    ELSE Itoa(h \div 8736) \o << "y" >>

\* C3: for now <= expiry getToExpiry returns the bucket the boundary table
\* gives for the whole hours between now and expiry.
C3_Table ==
    (pc = "classified" /\ clock <= expiry) =>
        toExpiry = Table((expiry - clock) \div TicksPerHour)

\* C3 holds of every expiry that a Duration can reach from now.
C3_WithinDuration ==
    (expiry - clock <= MaxDurationTicks) => C3_Table

\* C4: for expiry < now getToExpiry returns "expired".
C4_Expired ==
    (pc = "classified" /\ expiry < clock) =>
        toExpiry = << "e", "x", "p", "i", "r", "e", "d" >>

\* C4 holds of every expiry a whole hour or more before now.
C4_WholeHourPast ==
    (clock - expiry >= TicksPerHour) => C4_Expired

\* ------------------------------------------------- claims, getHostPort

WellFormed(parts) ==
    /\ parts.prefix = << "h", "t", "t", "p", "s", ":", "/", "/" >>
    /\ parts.host \in { << "a" >>, << "b", ".", "c" >> }
    /\ parts.port \in { << >>, << ":", "8", "4", "4", "3" >>, << ":", "1" >> }
    /\ parts.path \in { << >>, << "/" >>, << "/", "x" >> }

\* C5: for a well-formed https://host[:port]/... getHostPort returns no
\* error and host:port, the port being 443 when the URL names none and the
\* named port otherwise.
C5_HostPort ==
    (pc = "resolved" /\ WellFormed(urlParts)) =>
        /\ resolved[1].err = "nil"
        /\ resolved[1].hostPort =
               urlParts.host \o (IF urlParts.port = << >>
                                 THEN << ":", "4", "4", "3" >>
                                 ELSE urlParts.port)

\* a URL with a port of its own was resolved
C5_Witness ==
    /\ pc = "resolved"
    /\ WellFormed(urlParts)
    /\ urlParts.port = << ":", "8", "4", "4", "3" >>
    /\ resolved[1].hostPort = << "a", ":", "8", "4", "4", "3" >>

\* the strings whose scheme is not https: another scheme, or none
OtherScheme(parts) ==
    parts.prefix \in { << "h", "t", "t", "p", ":", "/", "/" >>,
                       << "f", "t", "p", ":", "/", "/" >>,
                       << "/", "/" >>,
                       << ":" >>,
                       << >> }

\* C6: for a string whose scheme is not https getHostPort returns an empty
\* hostPort and an error, the scheme error whenever the string parses.
C6_SchemeError ==
    (pc = "resolved" /\ OtherScheme(urlParts)) =>
        /\ resolved[1].hostPort = << >>
        /\ resolved[1].err \in {"scheme", "parse"}
        /\ ~Parse(URLString(urlParts)).err => resolved[1].err = "scheme"

\* an http URL was refused with the scheme error
C6_Witness ==
    /\ pc = "resolved"
    /\ urlParts.prefix = << "h", "t", "t", "p", ":", "/", "/" >>
    /\ urlParts.host = << "a" >>
    /\ resolved[1].err = "scheme"

====
